---- MODULE Spec2Model ----
(***************************************************************************)
(* Work-queue pipeline of js-sqlite-workers: one producer worker, N        *)
(* consumer workers and the main-thread orchestrator, sharing one SQLite   *)
(* table (work_queue) and talking over postMessage channels.               *)
(*                                                                         *)
(* Sources: src/src/index.js (lines 1-264, the version with the deadline   *)
(* timer), src/src/consumer.js, src/src/db.js, src/unnamed/part_000 (the   *)
(* producer worker), src/unnamed/part_001 (config.js).                     *)
(***************************************************************************)
EXTENDS Integers, Sequences, FiniteSets, TLC

VARIABLES
    config,          \* [consumers, pageSize, limit, maxDuration]: the CLI flags of the run
    upstream,        \* number of rows of the upstream table people (ids 1..upstream)
    queue,           \* the work_queue table: a sequence of rows in insertion order
    writeLock,       \* holder of SQLite's single write lock across steps: "none" | "producer"
    prodPc,          \* producer position
    prodOffset,      \* producer: offset
    prodTotal,       \* producer: totalInserted
    prodBatch,       \* producer: the batch inside the open insertBatch transaction
    prodInserted,    \* producer: rows of the batch insertRow has run for, not yet committed
    p2m,             \* events from the producer worker queued for the main thread
    mainPc,          \* "running" | "terminating" (awaiting terminate()) | "exited"
    shuttingDown,    \* index.js: shuttingDown
    shutdownCode,    \* the code passed to the shutdown call that won; -1 before
    shutdownBy,      \* which trigger made that call
    shutdownCalls,   \* the codes of the calls of shutdown, in call order (the first few)
    consumersDone,   \* index.js: consumersDone (set of consumer ids)
    mainTotal,       \* index.js: totalInserted
    mainProducerDone,\* index.js: producerDone
    batchSum,        \* sum of the batch_inserted counts the main thread has received
    deadlineTimer,   \* "none" | "armed" | "fired" | "cleared"
    drainTimeout,    \* "none" | "armed" | "fired" | "cleared"
    resetOutcome,    \* "none" | "ok" | "failed": how the orphan reset of shutdown ended
    resetChanges,    \* resetResult.changes of the orphan reset; -1 before it has run
    cPc,             \* consumer position: "poll" | "http" | "catch" (a fetch raised) |
                     \* "catch_busy" (markDone raised) | "done" | "crashed" | "terminated"
    cProducerDone,   \* consumer.js: producerDone
    emptyPolls,      \* consumer.js: emptyPolls
    cRow,            \* consumer.js: row (the id returned by dequeue; 0 when none)
    m2c,             \* messages from the main thread queued for each consumer
    c2m,             \* events from each consumer worker queued for the main thread
    rowLog,          \* per row: the statuses it has taken and the consumers dequeue returned it to
    pollLog,         \* per consumer: outcomes of its latest polls (a window of EmptyPollsToExit)
    doneSent,        \* per consumer: number of consumer_done messages posted
    drainSeen,       \* per consumer: a drain message has been delivered to its message handler
    emptySinceDone   \* per consumer: empty polls taken since producer_done was delivered
                     \* (counted up to EmptyPollsToExit)

vars == <<config, upstream, queue, writeLock, prodPc, prodOffset, prodTotal, prodBatch,
          prodInserted, p2m,
          mainPc, shuttingDown, shutdownCode, shutdownBy, shutdownCalls, consumersDone, mainTotal,
          mainProducerDone, batchSum, deadlineTimer, drainTimeout, resetOutcome, resetChanges,
          cPc, cProducerDone, emptyPolls, cRow, m2c, c2m,
          rowLog, pollLog, doneSent, drainSeen, emptySinceDone>>

prodVars == <<prodPc, prodOffset, prodTotal, prodBatch, prodInserted>>
mainVars == <<mainPc, shuttingDown, shutdownCode, shutdownBy, shutdownCalls, consumersDone, mainTotal,
              mainProducerDone, batchSum, deadlineTimer, drainTimeout, resetOutcome,
              resetChanges>>
shutVars == <<mainPc, shuttingDown, shutdownCode, shutdownBy, shutdownCalls,
              deadlineTimer, drainTimeout>>
consVars == <<cPc, cProducerDone, emptyPolls, cRow>>
logVars  == <<pollLog, doneSent, drainSeen, emptySinceDone>>

----------------------------------------------------------------------------
(* Bounds of the model *)

MaxConsumers == 2
MaxUpstream == 2
MaxPageSize == 2
MaxRowLimit == 1
MaxEmptyPolls == 3
MaxShutdownCalls == 2
ProdMaxUpstream == 5
ProdMaxPageSize == 3
ProdMaxRowLimit == 4
LiveMaxUpstreamWithDeadline == 1

(* Program constants *)

EmptyPollsToExit == 3

----------------------------------------------------------------------------
(* Nullable columns: NULL is the empty sequence, a value v is <<v>> *)

Null == <<>>
Some(v) == <<v>>
IsNull(x) == x = Null

Min(a, b) == IF a < b THEN a ELSE b

Consumers == 1..config.consumers

----------------------------------------------------------------------------
(* The work_queue table and its statements *)

NullResult == [body |-> Null, status |-> Null, duration_ms |-> Null]

NoResults == <<NullResult, NullResult, NullResult>>

\* INSERT INTO work_queue (source_id, payload): the column defaults of initSchema
NewRow(id, sourceId) ==
    [id |-> id, source_id |-> sourceId, status |-> "pending",
     processed_at |-> Null, results |-> NoResults]

\* AUTOINCREMENT primary key: rows are never deleted, so the next id is count + 1
NextId(q) == Len(q) + 1

\* (variant: the loop stops one row early)
InsertBatchShort(q, batch) ==
    q \o [k \in 1..(Len(batch) - 1) |-> NewRow(NextId(q) + k - 1, batch[k])]

\* insertBatch: one row per element of the batch, in one transaction
InsertBatch(q, batch) ==
    q \o [k \in 1..Len(batch) |-> NewRow(NextId(q) + k - 1, batch[k])]

\* (variant: the subquery also returns rows that are already claimed)
ClaimableAnyOpen(q) == {i \in 1..Len(q) : q[i].status \in {"pending", "processing"}}

\* SELECT id FROM work_queue WHERE status = 'pending' (the rows LIMIT 1 picks among)
Claimable(q) == {i \in 1..Len(q) : q[i].status = "pending"}

\* dequeue: UPDATE ... SET status = 'processing', processed_at = datetime('now') WHERE id = i
Dequeue(q, i) ==
    [q EXCEPT ![i].status = "processing", ![i].processed_at = Some("now")]

\* (variant: the results are written but the status is not set)
MarkDoneKeepsStatus(q, id, results) ==
    [i \in 1..Len(q) |->
        IF q[i].id = id THEN [q[i] EXCEPT !.results = results] ELSE q[i]]

\* (variant: the third duration is not bound)
MarkDoneShort(q, id, results) ==
    [i \in 1..Len(q) |->
        IF q[i].id = id
        THEN [q[i] EXCEPT !.status = "done",
                          !.results = [results EXCEPT ![3].duration_ms = Null]]
        ELSE q[i]]

\* markDone: UPDATE ... SET status = 'done', result_k_* = ? WHERE id = ?
MarkDone(q, id, results) ==
    [i \in 1..Len(q) |->
        IF q[i].id = id
        THEN [q[i] EXCEPT !.status = "done", !.results = results]
        ELSE q[i]]

\* (variant: the id is not bound, the statement matches no row)
MarkFailedNoRow(q, id) == q

\* (variant: the statement has no WHERE clause)
MarkFailedAll(q, id) ==
    [i \in 1..Len(q) |-> [q[i] EXCEPT !.status = "failed"]]

\* markFailed: UPDATE ... SET status = 'failed' WHERE id = ?
MarkFailed(q, id) ==
    [i \in 1..Len(q) |->
        IF q[i].id = id THEN [q[i] EXCEPT !.status = "failed"] ELSE q[i]]

\* (variant: processed_at is not cleared)
ResetOrphansKeepStamp(q) ==
    [i \in 1..Len(q) |->
        IF q[i].status = "processing" THEN [q[i] EXCEPT !.status = "pending"] ELSE q[i]]

\* (variant: failed rows are put back as well)
ResetOrphansAlsoFailed(q) ==
    [i \in 1..Len(q) |->
        IF q[i].status \in {"processing", "failed"}
        THEN [q[i] EXCEPT !.status = "pending", !.processed_at = Null]
        ELSE q[i]]

\* (variant: only the first processing row is put back)
ResetOrphansFirstOnly(q) ==
    [i \in 1..Len(q) |->
        IF q[i].status = "processing" /\ \A j \in 1..(i - 1) : q[j].status # "processing"
        THEN [q[i] EXCEPT !.status = "pending", !.processed_at = Null]
        ELSE q[i]]

\* shutdown: UPDATE ... SET status = 'pending', processed_at = NULL WHERE status = 'processing'
ResetOrphans(q) ==
    [i \in 1..Len(q) |->
        IF q[i].status = "processing"
        THEN [q[i] EXCEPT !.status = "pending", !.processed_at = Null]
        ELSE q[i]]

\* resetResult.changes: the number of rows the WHERE clause of the orphan reset matches
ResetChanges(q) == Cardinality({i \in 1..Len(q) : q[i].status = "processing"})

\* SELECT status, COUNT(*) ... GROUP BY status, for one status
StatusCount(q, s) == Cardinality({i \in 1..Len(q) : q[i].status = s})

\* Object.values(counts).reduce((a, b) => a + b, 0)
StatusTotal(q) ==
    StatusCount(q, "pending") + StatusCount(q, "processing")
        + StatusCount(q, "done") + StatusCount(q, "failed")

----------------------------------------------------------------------------
(* Logs kept beside the table, one entry per row *)

NewRowLog == [statuses |-> <<"pending">>, claimers |-> <<>>]

LogStatus(log, q, qNew) ==
    [i \in 1..Len(qNew) |->
        IF i > Len(q) THEN NewRowLog
        ELSE IF qNew[i].status # q[i].status
             THEN [log[i] EXCEPT !.statuses = Append(@, qNew[i].status)]
             ELSE log[i]]

LogClaim(log, i, c) == [log EXCEPT ![i].claimers = Append(@, c)]

PushPoll(w, outcome) ==
    IF Len(w) < EmptyPollsToExit THEN Append(w, outcome) ELSE Append(Tail(w), outcome)

----------------------------------------------------------------------------
(* Initial state: the configuration is read, the schema is created, the    *)
(* workers are spawned and the deadline timer is armed when requested.     *)

Init ==
    /\ config \in [consumers: 1..MaxConsumers, pageSize: 1..MaxPageSize,
                   limit: 0..MaxRowLimit, maxDuration: {0, 1}]
    /\ upstream \in 0..MaxUpstream
    /\ queue = <<>>
    /\ writeLock = "none"
    /\ prodPc = "start"
    /\ prodOffset = 0
    /\ prodTotal = 0
    /\ prodBatch = <<>>
    /\ prodInserted = 0
    /\ p2m = <<>>
    /\ mainPc = "running"
    /\ shuttingDown = FALSE
    /\ shutdownCode = -1
    /\ shutdownBy = "none"
    /\ shutdownCalls = <<>>
    /\ consumersDone = {}
    /\ mainTotal = 0
    /\ mainProducerDone = FALSE
    /\ batchSum = 0
    /\ deadlineTimer = IF config.maxDuration > 0 THEN "armed" ELSE "none"
    /\ drainTimeout = "none"
    /\ resetOutcome = "none"
    /\ resetChanges = -1
    /\ cPc = [c \in Consumers |-> "poll"]
    /\ cProducerDone = [c \in Consumers |-> FALSE]
    /\ emptyPolls = [c \in Consumers |-> 0]
    /\ cRow = [c \in Consumers |-> 0]
    /\ m2c = [c \in Consumers |-> <<>>]
    /\ c2m = [c \in Consumers |-> <<>>]
    /\ rowLog = <<>>
    /\ pollLog = [c \in Consumers |-> <<>>]
    /\ doneSent = [c \in Consumers |-> 0]
    /\ drainSeen = [c \in Consumers |-> FALSE]
    /\ emptySinceDone = [c \in Consumers |-> 0]

\* process.exit() of the main thread ends every worker with it
Running == mainPc # "exited"

----------------------------------------------------------------------------
(* Producer worker *)

\* client.query('SELECT * FROM people ORDER BY id LIMIT $1 OFFSET $2'): source ids of the page
QueryPage(limit, offset) ==
    [k \in 1..(Min(offset + limit, upstream) - Min(offset, upstream)) |-> offset + k]

\* (variant: the last page is not trimmed)
ClipBatchNoTrim(rows, total) == rows

\* Trim the last page if a row limit would be exceeded
ClipBatch(rows, total) ==
    LET remaining == IF config.limit > 0 THEN config.limit - total ELSE Len(rows)
    IN IF remaining < Len(rows) THEN SubSeq(rows, 1, remaining) ELSE rows

\* openDb() / db.prepare() at module level and client.connect() succeed
ProducerConnect ==
    /\ Running /\ prodPc = "start"
    /\ prodPc' = "query"
    /\ UNCHANGED <<config, upstream, queue, writeLock, prodOffset, prodTotal, prodBatch,
                   prodInserted, p2m, mainVars, consVars, m2c, c2m, rowLog, logVars>>

\* an exception thrown at module level is uncaught: the Worker emits 'error'
ProducerUncaught ==
    /\ Running /\ prodPc = "start"
    /\ prodPc' = "errored"
    /\ p2m' = Append(p2m, [type |-> "error", count |-> 0])
    /\ UNCHANGED <<config, upstream, queue, writeLock, prodOffset, prodTotal, prodBatch,
                   prodInserted, mainVars, consVars, m2c, c2m, rowLog, logVars>>

\* produce() rejects (connect or query failed): .catch logs and calls process.exit(1),
\* which ends the worker thread; the main thread listens to no 'exit' of the producer
ProducerFail ==
    /\ Running /\ prodPc \in {"start", "query"}
    /\ prodPc' = "exited"
    /\ UNCHANGED <<config, upstream, queue, writeLock, prodOffset, prodTotal, prodBatch,
                   prodInserted, p2m, mainVars, consVars, m2c, c2m, rowLog, logVars>>

\* the query returns an empty page: break, then postMessage(producer_done)
ProducerQueryEmpty ==
    /\ Running /\ prodPc = "query"
    /\ Len(QueryPage(config.pageSize, prodOffset)) = 0
    /\ prodPc' = "done"
    /\ p2m' = Append(p2m, [type |-> "producer_done", count |-> prodTotal])
    /\ UNCHANGED <<config, upstream, queue, writeLock, prodOffset, prodTotal, prodBatch,
                   prodInserted, mainVars, consVars, m2c, c2m, rowLog, logVars>>

\* the query returns rows: the batch is clipped and insertBatch opens its transaction
ProducerQueryRows ==
    /\ Running /\ prodPc = "query"
    /\ Len(QueryPage(config.pageSize, prodOffset)) > 0
    /\ writeLock = "none"
    /\ prodBatch' = ClipBatch(QueryPage(config.pageSize, prodOffset), prodTotal)
    /\ writeLock' = "producer"
    /\ prodPc' = "insert"
    /\ UNCHANGED <<config, upstream, queue, prodOffset, prodTotal, prodInserted, p2m,
                   mainVars, consVars, m2c, c2m, rowLog, logVars>>

\* insertBatch: insertRow.run for the next row of the batch, inside the transaction; the
\* row is not visible to the other connections before COMMIT
ProducerInsertRow ==
    /\ Running /\ prodPc = "insert"
    /\ prodInserted < Len(prodBatch)
    /\ prodInserted' = prodInserted + 1
    /\ UNCHANGED <<config, upstream, queue, writeLock, prodPc, prodOffset, prodTotal, prodBatch,
                   p2m, mainVars, consVars, m2c, c2m, rowLog, logVars>>

\* COMMIT of insertBatch, totalInserted += batch.length, postMessage(batch_inserted),
\* then either break and postMessage(producer_done), or offset += PG_PAGE_SIZE
ProducerCommit ==
    /\ Running /\ prodPc = "insert"
    /\ prodInserted = Len(prodBatch)
    /\ prodInserted' = 0
    /\ LET total == prodTotal + Len(prodBatch)
           inserted == [type |-> "batch_inserted", count |-> Len(prodBatch)]
       IN /\ queue' = InsertBatch(queue, prodBatch)
          /\ rowLog' = LogStatus(rowLog, queue, queue')
          /\ writeLock' = "none"
          /\ prodTotal' = total
          /\ prodBatch' = <<>>
          /\ IF config.limit > 0 /\ total >= config.limit
             THEN /\ prodPc' = "done"
                  /\ p2m' = p2m \o <<inserted, [type |-> "producer_done", count |-> total]>>
                  /\ UNCHANGED prodOffset
             ELSE /\ prodPc' = "query"
                  /\ p2m' = Append(p2m, inserted)
                  /\ prodOffset' = prodOffset + config.pageSize
    /\ UNCHANGED <<config, upstream, mainVars, consVars, m2c, c2m, logVars>>

\* (variant: no transaction around the loop, every insertRow.run commits on its own)
RollbackKeepsRows(q, batch, inserted) == InsertBatch(q, SubSeq(batch, 1, inserted))

\* db.transaction(): when the function throws, the transaction is rolled back and the
\* rows inserted so far are discarded
Rollback(q, batch, inserted) == q

\* insertBatch raises (a store write failure) before or after some of the rows were
\* inserted: the transaction is rolled back, produce() rejects and .catch calls
\* process.exit(1); no message is posted
ProducerInsertFails ==
    /\ Running /\ prodPc = "insert"
    /\ queue' = Rollback(queue, prodBatch, prodInserted)
    /\ rowLog' = LogStatus(rowLog, queue, queue')
    /\ writeLock' = "none"
    /\ prodBatch' = <<>>
    /\ prodInserted' = 0
    /\ prodPc' = "exited"
    /\ UNCHANGED <<config, upstream, prodOffset, prodTotal, p2m,
                   mainVars, consVars, m2c, c2m, logVars>>

----------------------------------------------------------------------------
(* Consumer worker *)

Alive(c) == cPc[c] \notin {"crashed", "terminated"}

\* consumer c is inside the catch block of poll()
InCatch(c) == cPc[c] \in {"catch", "catch_busy"}

\* the worker thread of consumer c ends: its variables and its message port are gone
EndWorker(c, how) ==
    /\ cPc' = [cPc EXCEPT ![c] = how]
    /\ cProducerDone' = [cProducerDone EXCEPT ![c] = FALSE]
    /\ emptyPolls' = [emptyPolls EXCEPT ![c] = 0]
    /\ cRow' = [cRow EXCEPT ![c] = 0]
    /\ m2c' = [m2c EXCEPT ![c] = <<>>]
    /\ pollLog' = [pollLog EXCEPT ![c] = <<>>]
    /\ drainSeen' = [drainSeen EXCEPT ![c] = FALSE]
    /\ emptySinceDone' = [emptySinceDone EXCEPT ![c] = 0]

\* (variant: the type of the message is not looked at)
AnyMessage(msg) == TRUE

\* msg.type === 'producer_done'
IsProducerDone(msg) == msg = "producer_done"

\* parentPort.on('message'): only producer_done changes the consumer's state
ConsumerOnMessage(c) ==
    /\ Running /\ Alive(c) /\ ~InCatch(c)
    /\ Len(m2c[c]) > 0
    /\ cProducerDone' = [cProducerDone EXCEPT ![c] = @ \/ IsProducerDone(Head(m2c[c]))]
    /\ drainSeen' = [drainSeen EXCEPT ![c] = @ \/ Head(m2c[c]) = "drain"]
    /\ emptySinceDone' = [emptySinceDone EXCEPT ![c] =
                            IF IsProducerDone(Head(m2c[c])) /\ ~cProducerDone[c] THEN 0 ELSE @]
    /\ m2c' = [m2c EXCEPT ![c] = Tail(@)]
    /\ UNCHANGED <<config, upstream, queue, writeLock, prodVars, p2m, mainVars,
                   cPc, emptyPolls, cRow, c2m, rowLog, pollLog, doneSent>>

\* (variant: the producerDone flag is not consulted)
ExitConditionNoFlag(pd, ep) == ep >= EmptyPollsToExit

\* if (producerDone && emptyPolls >= 3)
ExitCondition(pd, ep) == pd /\ ep >= EmptyPollsToExit

\* emptyPolls++ (the model stops counting at MaxEmptyPolls, beyond the threshold)
IncrEmptyPolls(ep) == Min(ep + 1, MaxEmptyPolls)

\* (variant: the counter is not reset)
KeepEmptyPolls(ep) == ep

\* emptyPolls = 0 after a successful dequeue
ResetEmptyPolls(ep) == 0

\* poll(): dequeue raises SQLITE_BUSY (the producer held the write lock for the whole
\* busy_timeout): setTimeout(poll, 200) and return
ConsumerPollBusy(c) ==
    /\ Running /\ cPc[c] = "poll"
    /\ writeLock = "producer"
    /\ UNCHANGED vars

\* poll(): dequeue raises another error: it is rethrown, the worker dies with exit code 1
ConsumerPollThrows(c) ==
    /\ Running /\ cPc[c] = "poll"
    /\ EndWorker(c, "crashed")
    /\ c2m' = [c2m EXCEPT ![c] = Append(@, "exit1")]
    /\ UNCHANGED <<config, upstream, queue, writeLock, prodVars, p2m, mainVars,
                   rowLog, doneSent>>

\* (variant: no return after postMessage, control falls through to setTimeout(poll, 200))
PcAfterConsumerDoneNoReturn == "poll"

\* return after postMessage(consumer_done): no further poll is scheduled
PcAfterConsumerDone == "done"

\* poll(): dequeue returns no row
ConsumerPollEmpty(c) ==
    /\ Running /\ cPc[c] = "poll"
    /\ writeLock = "none"
    /\ Claimable(queue) = {}
    /\ emptyPolls' = [emptyPolls EXCEPT ![c] = IncrEmptyPolls(@)]
    /\ pollLog' = [pollLog EXCEPT ![c] = PushPoll(@, "empty")]
    /\ emptySinceDone' = [emptySinceDone EXCEPT ![c] =
                            IF cProducerDone[c] THEN Min(@ + 1, EmptyPollsToExit) ELSE @]
    /\ IF ExitCondition(cProducerDone[c], emptyPolls'[c])
       THEN /\ cPc' = [cPc EXCEPT ![c] = PcAfterConsumerDone]
            /\ c2m' = [c2m EXCEPT ![c] = Append(@, "consumer_done")]
            /\ doneSent' = [doneSent EXCEPT ![c] = @ + 1]
       ELSE UNCHANGED <<cPc, c2m, doneSent>>
    /\ UNCHANGED <<config, upstream, queue, writeLock, prodVars, p2m, mainVars,
                   cProducerDone, cRow, m2c, rowLog, drainSeen>>

\* poll(): dequeue returns a row; the three fetches are started
ConsumerPollClaim(c) ==
    /\ Running /\ cPc[c] = "poll"
    /\ writeLock = "none"
    /\ \E i \in Claimable(queue) :
        /\ queue' = Dequeue(queue, i)
        /\ cRow' = [cRow EXCEPT ![c] = queue[i].id]
        /\ rowLog' = LogClaim(LogStatus(rowLog, queue, queue'), i, c)
    /\ emptyPolls' = [emptyPolls EXCEPT ![c] = ResetEmptyPolls(@)]
    /\ pollLog' = [pollLog EXCEPT ![c] = PushPoll(@, "row")]
    /\ cPc' = [cPc EXCEPT ![c] = "http"]
    /\ UNCHANGED <<config, upstream, writeLock, prodVars, p2m, mainVars,
                   cProducerDone, m2c, c2m, doneSent, drainSeen, emptySinceDone>>

\* status codes the remote endpoint answers with (any code is stored, 2xx or not)
HttpStatuses == {200}

\* { body, status: res.status, duration } of one fetch
HttpResult(s) == [body |-> Some("text"), status |-> Some(s), duration_ms |-> Some("ms")]

\* Promise.all resolves (all three fetches answered) and markDone.run stores the results;
\* then postMessage(item_processed), for which worker.on('message') of index.js has no
\* branch (the message is dropped on arrival and is not queued here), and setImmediate(poll)
ConsumerMarkDone(c) ==
    /\ Running /\ cPc[c] = "http"
    /\ writeLock = "none"
    /\ \E s \in [1..3 -> HttpStatuses] :
        queue' = MarkDone(queue, cRow[c], <<HttpResult(s[1]), HttpResult(s[2]), HttpResult(s[3])>>)
    /\ rowLog' = LogStatus(rowLog, queue, queue')
    /\ cPc' = [cPc EXCEPT ![c] = "poll"]
    /\ UNCHANGED <<config, upstream, writeLock, prodVars, p2m, mainVars,
                   cProducerDone, emptyPolls, cRow, m2c, c2m, logVars>>

\* outcomes of the three fetches of one row
FetchOutcomes == [1..3 -> {"ok", "raise"}]

\* Promise.all rejects as soon as one of the three promises rejects
Rejects(o) == \E k \in 1..3 : o[k] = "raise"

\* one of the fetches raises: Promise.all rejects and control enters the catch block
ConsumerFetchRaises(c) ==
    /\ Running /\ cPc[c] = "http"
    /\ {o \in FetchOutcomes : Rejects(o)} # {}
    /\ cPc' = [cPc EXCEPT ![c] = "catch"]
    /\ UNCHANGED <<config, upstream, queue, writeLock, prodVars, p2m, mainVars,
                   cProducerDone, emptyPolls, cRow, m2c, c2m, rowLog, logVars>>

\* the fetches answered but markDone.run raises SQLITE_BUSY: control enters the catch block
ConsumerMarkDoneBusy(c) ==
    /\ Running /\ cPc[c] = "http"
    /\ writeLock = "producer"
    /\ cPc' = [cPc EXCEPT ![c] = "catch_busy"]
    /\ UNCHANGED <<config, upstream, queue, writeLock, prodVars, p2m, mainVars,
                   cProducerDone, emptyPolls, cRow, m2c, c2m, rowLog, logVars>>

\* catch: markFailed.run(row.id); then postMessage(item_processed) and setImmediate(poll)
ConsumerMarkFailed(c) ==
    /\ Running /\ InCatch(c)
    /\ writeLock = "none"
    /\ queue' = MarkFailed(queue, cRow[c])
    /\ rowLog' = LogStatus(rowLog, queue, queue')
    /\ cPc' = [cPc EXCEPT ![c] = "poll"]
    /\ UNCHANGED <<config, upstream, writeLock, prodVars, p2m, mainVars,
                   cProducerDone, emptyPolls, cRow, m2c, c2m, logVars>>

\* catch: markFailed.run raises SQLITE_BUSY inside the catch block: poll() rejects and
\* the worker dies with exit code 1, leaving its row in processing
ConsumerMarkFailedThrows(c) ==
    /\ Running /\ InCatch(c)
    /\ writeLock = "producer"
    /\ EndWorker(c, "crashed")
    /\ c2m' = [c2m EXCEPT ![c] = Append(@, "exit1")]
    /\ UNCHANGED <<config, upstream, queue, writeLock, prodVars, p2m, mainVars,
                   rowLog, doneSent>>

----------------------------------------------------------------------------
(* Main thread (orchestrator) *)

\* the call shutdown(code) is recorded
LogCall(calls, code) == IF Len(calls) < MaxShutdownCalls THEN Append(calls, code) ELSE calls

\* (variant: no shuttingDown guard, every call runs the body with its own code)
ShutdownLastWins(code, by) ==
    /\ shutdownCalls' = LogCall(shutdownCalls, code)
    /\ shuttingDown' = TRUE
    /\ shutdownCode' = code
    /\ shutdownBy' = by
    /\ mainPc' = "terminating"
    /\ deadlineTimer' = IF deadlineTimer = "armed" THEN "cleared" ELSE deadlineTimer
    /\ drainTimeout' = IF drainTimeout = "armed" THEN "cleared" ELSE drainTimeout

\* shutdown(code) up to the await of terminate(): first caller wins, timers are cleared
Shutdown(code, by) ==
    /\ shutdownCalls' = LogCall(shutdownCalls, code)
    /\ IF shuttingDown
       THEN UNCHANGED <<mainPc, shuttingDown, shutdownCode, shutdownBy,
                        deadlineTimer, drainTimeout>>
       ELSE /\ shuttingDown' = TRUE
            /\ shutdownCode' = code
            /\ shutdownBy' = by
            /\ mainPc' = "terminating"
            /\ deadlineTimer' = IF deadlineTimer = "armed" THEN "cleared" ELSE deadlineTimer
            /\ drainTimeout' = IF drainTimeout = "armed" THEN "cleared" ELSE drainTimeout

\* (variant: only the first consumer is sent the message)
BroadcastFirstOnly(msg) ==
    [c \in Consumers |-> IF Alive(c) /\ c = 1 THEN Append(m2c[c], msg) ELSE m2c[c]]

\* for (const c of consumers) c.postMessage(msg): a worker that has ended receives nothing
Broadcast(msg) == [c \in Consumers |-> IF Alive(c) THEN Append(m2c[c], msg) ELSE m2c[c]]

\* producer.on('message') and producer.on('error')
MainOnProducerEvent ==
    /\ Running /\ Len(p2m) > 0
    /\ p2m' = Tail(p2m)
    /\ LET msg == Head(p2m) IN
        \/ /\ msg.type = "batch_inserted"
           /\ mainTotal' = mainTotal + msg.count
           /\ batchSum' = batchSum + msg.count
           /\ UNCHANGED <<mainProducerDone, m2c, shutVars>>
        \/ /\ msg.type = "producer_done"
           /\ mainProducerDone' = TRUE
           /\ mainTotal' = msg.count
           /\ m2c' = Broadcast("producer_done")
           /\ UNCHANGED <<batchSum, shutVars>>
        \/ /\ msg.type = "error"
           /\ Shutdown(1, "producer_error")
           /\ UNCHANGED <<mainProducerDone, mainTotal, batchSum, m2c>>
    /\ UNCHANGED <<config, upstream, queue, writeLock, prodVars, consumersDone, resetOutcome, resetChanges,
                   consVars, c2m, rowLog, logVars>>

\* (variant: one consumer accounted for is enough)
AnyAccounted(done) == Cardinality(done) >= 1

\* consumersDone.size === consumers.length
AllAccounted(done) == Cardinality(done) = config.consumers

\* worker.on('message') and worker.on('exit') of consumer c
MainOnConsumerEvent(c) ==
    /\ Running /\ Len(c2m[c]) > 0
    /\ c2m' = [c2m EXCEPT ![c] = Tail(@)]
    /\ LET msg == Head(c2m[c]) IN
        \/ /\ msg = "consumer_done"
           /\ consumersDone' = consumersDone \cup {c}
           /\ IF AllAccounted(consumersDone')
              THEN Shutdown(0, "all_done")
              ELSE UNCHANGED shutVars
        \/ /\ msg = "exit1"
           /\ IF ~shuttingDown /\ c \notin consumersDone
              THEN /\ consumersDone' = consumersDone \cup {c}
                   /\ IF AllAccounted(consumersDone')
                      THEN Shutdown(1, "consumer_exit")
                      ELSE UNCHANGED shutVars
              ELSE UNCHANGED <<consumersDone, shutVars>>
    /\ UNCHANGED <<config, upstream, queue, writeLock, prodVars, p2m, mainTotal,
                   mainProducerDone, batchSum, resetOutcome, resetChanges, consVars, m2c, rowLog, logVars>>

\* (variant: the safety timer is not armed)
DeadlineFireNoSafetyTimer ==
    /\ Running /\ deadlineTimer = "armed"
    /\ deadlineTimer' = "fired"
    /\ m2c' = Broadcast("drain")
    /\ UNCHANGED <<config, upstream, queue, writeLock, prodVars, p2m, mainPc, shuttingDown,
                   shutdownCode, shutdownBy, shutdownCalls, consumersDone, mainTotal, mainProducerDone,
                   batchSum, drainTimeout, resetOutcome, resetChanges, consVars, c2m, rowLog, logVars>>

\* deadlineTimer fires: drain is broadcast and the safety timer is armed
DeadlineFire ==
    /\ Running /\ deadlineTimer = "armed"
    /\ deadlineTimer' = "fired"
    /\ drainTimeout' = "armed"
    /\ m2c' = Broadcast("drain")
    /\ UNCHANGED <<config, upstream, queue, writeLock, prodVars, p2m, mainPc, shuttingDown,
                   shutdownCode, shutdownBy, shutdownCalls, consumersDone, mainTotal, mainProducerDone,
                   batchSum, resetOutcome, resetChanges, consVars, c2m, rowLog, logVars>>

\* drainTimeout fires: shutdown(0)
DrainTimeoutFire ==
    /\ Running /\ drainTimeout = "armed"
    /\ shuttingDown' = TRUE
    /\ shutdownCode' = 0
    /\ shutdownBy' = "drain_timeout"
    /\ shutdownCalls' = LogCall(shutdownCalls, 0)
    /\ mainPc' = "terminating"
    /\ drainTimeout' = "fired"
    /\ UNCHANGED <<config, upstream, queue, writeLock, prodVars, p2m, deadlineTimer,
                   consumersDone, mainTotal, mainProducerDone, batchSum, resetOutcome, resetChanges,
                   consVars, m2c, c2m, rowLog, logVars>>

\* shutdown: w.terminate() stops consumer c; its 'exit' event finds shuttingDown set
TerminateConsumer(c) ==
    /\ mainPc = "terminating" /\ Alive(c)
    /\ EndWorker(c, "terminated")
    /\ UNCHANGED <<config, upstream, queue, writeLock, prodVars, p2m, mainVars,
                   c2m, rowLog, doneSent>>

AllStopped == \A c \in Consumers : ~Alive(c)

\* shutdown after the await: the orphan reset runs, then process.exit(code)
ShutdownReset ==
    /\ mainPc = "terminating" /\ AllStopped
    /\ writeLock = "none"
    /\ queue' = ResetOrphans(queue)
    /\ rowLog' = LogStatus(rowLog, queue, queue')
    /\ resetOutcome' = "ok"
    /\ resetChanges' = ResetChanges(queue)
    /\ mainPc' = "exited"
    /\ UNCHANGED <<config, upstream, writeLock, prodVars, p2m, shuttingDown, shutdownCode,
                   shutdownBy, shutdownCalls, consumersDone, mainTotal, mainProducerDone, batchSum,
                   deadlineTimer, drainTimeout, consVars, m2c, c2m, logVars>>

\* shutdown after the await: the orphan reset raises (SQLITE_BUSY under the producer's
\* open transaction), the catch logs it, then process.exit(code)
ShutdownResetFails ==
    /\ mainPc = "terminating" /\ AllStopped
    /\ writeLock = "producer"
    /\ resetOutcome' = "failed"
    /\ mainPc' = "exited"
    /\ UNCHANGED <<config, upstream, queue, writeLock, prodVars, p2m, shuttingDown,
                   shutdownCode, shutdownBy, shutdownCalls, consumersDone, mainTotal, mainProducerDone,
                   batchSum, deadlineTimer, drainTimeout, resetChanges, consVars, m2c, c2m,
                   rowLog, logVars>>

----------------------------------------------------------------------------

Next ==
    \/ ProducerConnect
    \/ ProducerUncaught
    \/ ProducerFail
    \/ ProducerQueryEmpty
    \/ ProducerQueryRows
    \/ ProducerInsertRow
    \/ ProducerCommit
    \/ ProducerInsertFails
    \/ \E c \in Consumers : ConsumerOnMessage(c)
    \/ \E c \in Consumers : ConsumerPollBusy(c)
    \/ \E c \in Consumers : ConsumerPollThrows(c)
    \/ \E c \in Consumers : ConsumerPollEmpty(c)
    \/ \E c \in Consumers : ConsumerPollClaim(c)
    \/ \E c \in Consumers : ConsumerMarkDone(c)
    \/ \E c \in Consumers : ConsumerFetchRaises(c)
    \/ \E c \in Consumers : ConsumerMarkDoneBusy(c)
    \/ \E c \in Consumers : ConsumerMarkFailed(c)
    \/ \E c \in Consumers : ConsumerMarkFailedThrows(c)
    \/ MainOnProducerEvent
    \/ \E c \in Consumers : MainOnConsumerEvent(c)
    \/ DeadlineFire
    \/ DrainTimeoutFire
    \/ \E c \in Consumers : TerminateConsumer(c)
    \/ ShutdownReset
    \/ ShutdownResetFails

Spec == Init /\ [][Next]_vars

\* Steps each thread takes on its own when it can: the producer's loop, a consumer's
\* message handler and poll loop (a fetch ends by answering or by raising), the main
\* thread's event handlers and timers. Store errors are not among them.
ProducerStep ==
    \/ ProducerConnect
    \/ ProducerQueryEmpty
    \/ ProducerQueryRows
    \/ ProducerInsertRow
    \/ ProducerCommit

ConsumerStep(c) ==
    /\ c \in Consumers
    /\ \/ ConsumerOnMessage(c)
       \/ ConsumerPollEmpty(c)
       \/ ConsumerPollClaim(c)
       \/ ConsumerMarkDone(c)
       \/ ConsumerFetchRaises(c)
       \/ ConsumerMarkFailed(c)

MainStep ==
    \/ MainOnProducerEvent
    \/ \E c \in Consumers : MainOnConsumerEvent(c)
    \/ DeadlineFire
    \/ DrainTimeoutFire
    \/ \E c \in Consumers : TerminateConsumer(c)
    \/ ShutdownReset
    \/ ShutdownResetFails

Fairness ==
    /\ WF_vars(ProducerStep)
    /\ WF_vars(MainStep)
    /\ \A c \in 1..MaxConsumers : WF_vars(ConsumerStep(c))

\* The runs checked for progress: every configuration without deadline, and the
\* configurations with a deadline whose upstream has at most LiveMaxUpstreamWithDeadline rows.
LiveInit ==
    /\ Init
    /\ config.maxDuration > 0 => upstream <= LiveMaxUpstreamWithDeadline

LiveSpec == LiveInit /\ [][Next]_vars /\ Fairness

\* Only the main thread's event loop is assumed to make progress: a consumer may hang in
\* its fetches and the producer may never finish.
MainFairness == WF_vars(MainStep)

MainFairSpec == LiveInit /\ [][Next]_vars /\ MainFairness

----------------------------------------------------------------------------
(* The producer on its own, with the main thread's handler of its messages: the page   *)
(* size, the row limit and the upstream size range over larger sets than in Init.      *)

ProducerInit ==
    /\ config \in [consumers: {1}, pageSize: 1..ProdMaxPageSize,
                   limit: 0..ProdMaxRowLimit, maxDuration: {0}]
    /\ upstream \in 0..ProdMaxUpstream
    /\ queue = <<>>
    /\ writeLock = "none"
    /\ prodPc = "start"
    /\ prodOffset = 0
    /\ prodTotal = 0
    /\ prodBatch = <<>>
    /\ prodInserted = 0
    /\ p2m = <<>>
    /\ mainPc = "running"
    /\ shuttingDown = FALSE
    /\ shutdownCode = -1
    /\ shutdownBy = "none"
    /\ shutdownCalls = <<>>
    /\ consumersDone = {}
    /\ mainTotal = 0
    /\ mainProducerDone = FALSE
    /\ batchSum = 0
    /\ deadlineTimer = "none"
    /\ drainTimeout = "none"
    /\ resetOutcome = "none"
    /\ resetChanges = -1
    /\ cPc = [c \in Consumers |-> "poll"]
    /\ cProducerDone = [c \in Consumers |-> FALSE]
    /\ emptyPolls = [c \in Consumers |-> 0]
    /\ cRow = [c \in Consumers |-> 0]
    /\ m2c = [c \in Consumers |-> <<>>]
    /\ c2m = [c \in Consumers |-> <<>>]
    /\ rowLog = <<>>
    /\ pollLog = [c \in Consumers |-> <<>>]
    /\ doneSent = [c \in Consumers |-> 0]
    /\ drainSeen = [c \in Consumers |-> FALSE]
    /\ emptySinceDone = [c \in Consumers |-> 0]

ProducerNext ==
    \/ ProducerConnect
    \/ ProducerFail
    \/ ProducerQueryEmpty
    \/ ProducerQueryRows
    \/ ProducerInsertRow
    \/ ProducerCommit
    \/ ProducerInsertFails
    \/ MainOnProducerEvent

ProducerSpec == ProducerInit /\ [][ProducerNext]_vars

----------------------------------------------------------------------------
(* The consumer's result statements on their own: markDone and markFailed are applied  *)
(* to a table whose rows are in any of the four statuses, for any row id the caller    *)
(* may pass. The statements are the ones of the pipeline (ConsumerMarkDone,            *)
(* ConsumerMarkFailed); only the starting table and the held ids are drawn freely.     *)

StoreStatuses == {"pending", "processing", "done", "failed"}

\* a row of work_queue in status st, as the statements of the pipeline leave it
StoredRow(id, st) ==
    [id |-> id, source_id |-> id, status |-> st,
     processed_at |-> IF st = "pending" THEN Null ELSE Some("now"),
     results |-> IF st = "done"
                 THEN <<HttpResult(200), HttpResult(200), HttpResult(200)>>
                 ELSE NoResults]

StoredTables ==
    UNION {{[i \in 1..n |-> StoredRow(i, st[i])] : st \in [1..n -> StoreStatuses]} :
           n \in 1..MaxUpstream}

StoreInit ==
    /\ config \in [consumers: 1..MaxConsumers, pageSize: {1}, limit: {0}, maxDuration: {0}]
    /\ queue \in StoredTables
    /\ upstream = Len(queue)
    /\ writeLock = "none"
    /\ prodPc = "done"
    /\ prodOffset = Len(queue)
    /\ prodTotal = Len(queue)
    /\ prodBatch = <<>>
    /\ prodInserted = 0
    /\ p2m = <<>>
    /\ mainPc = "running"
    /\ shuttingDown = FALSE
    /\ shutdownCode = -1
    /\ shutdownBy = "none"
    /\ shutdownCalls = <<>>
    /\ consumersDone = {}
    /\ mainTotal = Len(queue)
    /\ mainProducerDone = TRUE
    /\ batchSum = Len(queue)
    /\ deadlineTimer = "none"
    /\ drainTimeout = "none"
    /\ resetOutcome = "none"
    /\ resetChanges = -1
    /\ cPc = [c \in Consumers |-> "http"]
    /\ cProducerDone = [c \in Consumers |-> TRUE]
    /\ emptyPolls = [c \in Consumers |-> 0]
    /\ cRow \in [Consumers -> 1..Len(queue)]
    /\ m2c = [c \in Consumers |-> <<>>]
    /\ c2m = [c \in Consumers |-> <<>>]
    /\ rowLog = [i \in 1..Len(queue) |-> [statuses |-> <<queue[i].status>>, claimers |-> <<>>]]
    /\ pollLog = [c \in Consumers |-> <<>>]
    /\ doneSent = [c \in Consumers |-> 0]
    /\ drainSeen = [c \in Consumers |-> FALSE]
    /\ emptySinceDone = [c \in Consumers |-> 0]

StoreNext ==
    \/ \E c \in Consumers : ConsumerMarkDone(c)
    \/ \E c \in Consumers : ConsumerFetchRaises(c)
    \/ \E c \in Consumers : ConsumerMarkFailed(c)

StoreSpec == StoreInit /\ [][StoreNext]_vars

\* The orphan reset on its own: the UPDATE of shutdown run by a cleanup connection on a
\* table in any state, as often as one likes with nothing in between
StoreResetOrphans ==
    /\ queue' = ResetOrphans(queue)
    /\ rowLog' = LogStatus(rowLog, queue, queue')
    /\ resetOutcome' = "ok"
    /\ resetChanges' = ResetChanges(queue)
    /\ UNCHANGED <<config, upstream, writeLock, prodVars, p2m, shutVars, consumersDone,
                   mainTotal, mainProducerDone, batchSum, consVars, m2c, c2m, logVars>>

ResetSpec == StoreInit /\ [][StoreResetOrphans]_vars

----------------------------------------------------------------------------
(* Properties *)

Rows == 1..Len(queue)

AllResultsNonNull(r) ==
    \A k \in 1..3 : /\ ~IsNull(r.results[k].body)
                    /\ ~IsNull(r.results[k].status)
                    /\ ~IsNull(r.results[k].duration_ms)

AllResultsNull(r) ==
    \A k \in 1..3 : /\ IsNull(r.results[k].body)
                    /\ IsNull(r.results[k].status)
                    /\ IsNull(r.results[k].duration_ms)

Holding(c) == cPc[c] \in {"http", "catch", "catch_busy"}

Faulted == prodPc \in {"exited", "errored"} \/ \E c \in Consumers : cPc[c] = "crashed"

\* C1 (no double-claim): every row is returned by at most one successful dequeue over
\* the whole run, and no two consumers hold the same row at the same time.
C1_NoDoubleClaim ==
    /\ \A i \in Rows : Len(rowLog[i].claimers) <= 1
    /\ \A c, d \in Consumers : (c # d /\ Holding(c) /\ Holding(d)) => cRow[c] # cRow[d]

\* two consumers hold rows at once while the producer has not finished
C1_Witness ==
    /\ config.consumers = 2
    /\ Holding(1) /\ Holding(2)
    /\ prodPc \in {"query", "insert"}

LinearPrefixes ==
    {<<"pending">>, <<"pending", "processing">>,
     <<"pending", "processing", "done">>, <<"pending", "processing", "failed">>}

\* C2 (monotone state): until the orphan reset of shutdown, the statuses a row has taken
\* form a prefix of pending, processing, done|failed; and a row that has reached done or
\* failed never takes another status, the orphan reset included.
C2_MonotoneState ==
    \A i \in Rows :
        /\ resetOutcome = "none" => rowLog[i].statuses \in LinearPrefixes
        /\ \A k \in 1..Len(rowLog[i].statuses) :
            rowLog[i].statuses[k] \in {"done", "failed"} => k = Len(rowLog[i].statuses)

\* while consumers run, one row has gone all the way to done and another to failed
C2_Witness ==
    /\ mainPc = "running"
    /\ \E i, j \in Rows : /\ rowLog[i].statuses = <<"pending", "processing", "done">>
                          /\ rowLog[j].statuses = <<"pending", "processing", "failed">>

\* C3 (done-completeness): a row has status done exactly when all nine result fields
\* are non-null.
C3_DoneCompleteness ==
    \A i \in Rows : (queue[i].status = "done") <=> AllResultsNonNull(queue[i])

\* a done row and a failed row are in the table together
C3_Witness ==
    \E i, j \in Rows : queue[i].status = "done" /\ queue[j].status = "failed"

\* C4 (row shape): a pending row has processed_at and all result fields null; a
\* processing row has processed_at set and all result fields null.
C4_RowShape ==
    \A i \in Rows :
        /\ queue[i].status = "pending" =>
              IsNull(queue[i].processed_at) /\ AllResultsNull(queue[i])
        /\ queue[i].status = "processing" =>
              ~IsNull(queue[i].processed_at) /\ AllResultsNull(queue[i])

\* the orphan reset of shutdown has put a claimed row back to pending
C4_Witness ==
    /\ mainPc = "exited" /\ resetOutcome = "ok"
    /\ \E i \in Rows : rowLog[i].statuses = <<"pending", "processing", "pending">>

\* the run is ended by the deadline: drain was broadcast, and shutdown came from the last
\* consumer_done or from the safety timer
DeadlineExit ==
    /\ mainPc = "exited"
    /\ deadlineTimer = "fired"
    /\ shutdownBy \in {"all_done", "drain_timeout"}

\* C5 (drain safety): when a run ended by the deadline exits, no row has status
\* processing.
C5_DrainSafety ==
    DeadlineExit => \A i \in Rows : queue[i].status \in {"pending", "done", "failed"}

\* C6 (row conservation, as claimed): at exit, on every shutdown path, the number of rows
\* equals the sum of the batch_inserted counts the main thread has received.
C6_RowConservation ==
    mainPc = "exited" => StatusTotal(queue) = batchSum

\* C6 (row conservation, amended): the sum of the batch_inserted counts received never
\* exceeds the number of rows, and from the moment the main thread has handled
\* producer_done (so on every shutdown by the last consumer_done) the two are equal.
C6_RowConservationAfterProducerDone ==
    /\ batchSum <= StatusTotal(queue)
    /\ (mainProducerDone \/ shutdownBy = "all_done") => StatusTotal(queue) = batchSum
    /\ StatusTotal(queue) = Len(queue)

\* the run exits after the last consumer_done with two rows in the table
C6_Witness ==
    /\ mainPc = "exited" /\ shutdownBy = "all_done"
    /\ batchSum = 2 /\ Len(queue) = 2

AllEmitted == \A c \in Consumers : doneSent[c] = 1

TrailingEmpties(w) ==
    IF w = <<>> \/ w[Len(w)] # "empty" THEN 0
    ELSE IF Len(w) = 1 \/ w[Len(w) - 1] # "empty" THEN 1
    ELSE IF Len(w) = 2 \/ w[Len(w) - 2] # "empty" THEN 2
    ELSE 3

EmitsDone(c) == doneSent'[c] > doneSent[c]

\* C8 (exit guard): a consumer posts consumer_done only in a poll that found no row, with
\* its producerDone flag set and emptyPolls at least 3 after the increment; and emptyPolls
\* counts consecutive empty polls: up to the threshold it equals the number of polls since
\* the last claimed row.
C8_ExitGuard ==
    /\ [](\A c \in Consumers :
            Alive(c) => Min(emptyPolls[c], EmptyPollsToExit) = TrailingEmpties(pollLog[c]))
    /\ [][\A c \in Consumers :
            EmitsDone(c) =>
                /\ cPc[c] = "poll" /\ cPc'[c] = "done"
                /\ queue' = queue /\ Claimable(queue) = {}
                /\ cProducerDone[c]
                /\ emptyPolls'[c] >= EmptyPollsToExit
                /\ pollLog'[c] = <<"empty", "empty", "empty">>]_vars

\* without any drain broadcast, a consumer that claimed a row earlier has posted
\* consumer_done
C8_Witness ==
    /\ deadlineTimer \in {"none", "armed"}
    /\ \E c \in Consumers :
        /\ cPc[c] = "done" /\ doneSent[c] = 1
        /\ \E i \in Rows : rowLog[i].claimers = <<c>>

SourceIds == {queue[i].source_id : i \in Rows}

NormalCompletion ==
    /\ mainPc = "exited" /\ shutdownBy = "all_done"
    /\ config.maxDuration = 0
    /\ ~Faulted

\* C9 (normal completion): with no deadline, no producer error and no consumer crash,
\* when the run exits after the last consumer_done every row is done or failed, the rows
\* are exactly the ones the producer enqueued, and no id appears twice.
C9_NormalCompletion ==
    NormalCompletion =>
        /\ \A i \in Rows : queue[i].status \in {"done", "failed"}
        /\ \A i, j \in Rows : i # j =>
              queue[i].id # queue[j].id /\ queue[i].source_id # queue[j].source_id
        /\ Len(queue) = prodTotal
        /\ SourceIds = 1..prodTotal

\* a normal completion with two consumers and two rows
C9_Witness ==
    /\ NormalCompletion
    /\ config.consumers = 2 /\ Len(queue) = 2

ClaimsBy(c) == Cardinality({i \in 1..Len(rowLog) : \E k \in 1..Len(rowLog[i].claimers) :
                                rowLog[i].claimers[k] = c})

\* C10 (drain stops claiming): once the drain message has been delivered to a consumer,
\* no dequeue of that consumer returns a row.
C10_DrainStopsClaiming ==
    [][\A c \in Consumers : drainSeen[c] => ClaimsBy(c)' = ClaimsBy(c)]_vars

\* consumer c completes a poll attempt: dequeue returned, with a row or with none
PollAttempt(c) ==
    /\ cPc[c] = "poll" /\ cPc'[c] \in {"poll", "http", "done"}
    /\ emptyPolls'[c] # emptyPolls[c] \/ pollLog'[c] # pollLog[c]

\* C11 (drain exit): once the drain message has been delivered to a consumer, its next
\* poll attempt posts consumer_done, whatever emptyPolls is and whether or not
\* producer_done was received.
C11_DrainExit ==
    [][\A c \in Consumers : (drainSeen[c] /\ PollAttempt(c)) => EmitsDone(c)]_vars

\* C12 (deadline ends the run, as claimed): a run whose deadline timer fired before
\* shutdown started exits with code 0.
C12_DeadlineExitsZero ==
    (mainPc = "exited" /\ deadlineTimer = "fired") => shutdownCode = 0

DeadlineFires == deadlineTimer = "armed" /\ deadlineTimer' = "fired"

\* C12 (deadline ends the run, amended): when the deadline timer fires, drain is posted
\* to every running consumer and the safety timer is armed; from then on the main thread
\* eventually runs shutdown and exits, even if a consumer hangs in its fetches and the
\* producer never finishes; the exit code is 0 when shutdown came from the last
\* consumer_done or from the safety timer, and 1 when a consumer crash or a producer
\* error called shutdown first.
C12_DeadlineEndsRun ==
    /\ [][DeadlineFires =>
            /\ drainTimeout' = "armed"
            /\ \A c \in Consumers : Alive(c) => m2c'[c] = Append(m2c[c], "drain")]_vars
    /\ (deadlineTimer = "fired") ~> (mainPc = "exited")
    /\ [](deadlineTimer = "fired" /\ shuttingDown =>
            \/ shutdownCode = 0 /\ shutdownBy \in {"all_done", "drain_timeout"}
            \/ shutdownCode = 1 /\ shutdownBy \in {"consumer_exit", "producer_error"})

\* the safety timer ended a run whose producer had not finished and whose consumer was
\* stopped in the middle of a row
C12_Witness ==
    /\ mainPc = "exited" /\ shutdownBy = "drain_timeout" /\ shutdownCode = 0
    /\ prodPc \in {"query", "insert"}
    /\ \E i \in Rows : rowLog[i].statuses = <<"pending", "processing", "pending">>

\* C13 (shutdown is idempotent, first caller wins): shutdown has started exactly when it
\* has been called; the code it exits with is the code of the first call; a later call
\* changes neither the code nor the trigger and does not restart the body; and the body
\* (terminate, orphan reset, exit) runs once: after the exit nothing changes any more.
C13_FirstCallerWins ==
    /\ [](shuttingDown <=> shutdownCalls # <<>>)
    /\ [](shuttingDown => shutdownCode = Head(shutdownCalls))
    /\ [](mainPc = "exited" => shuttingDown /\ resetOutcome # "none")
    /\ [][/\ shuttingDown =>
                /\ shuttingDown'
                /\ shutdownCode' = shutdownCode /\ shutdownBy' = shutdownBy
                /\ mainPc' # "running"
          /\ resetOutcome # "none" => resetOutcome' = resetOutcome /\ queue' = queue
          /\ mainPc # "exited"]_vars

\* the run has exited with the code of the first call (the safety timer's 0) although a
\* second call, with code 1, was made while the consumers were being terminated
C13_Witness ==
    /\ mainPc = "exited"
    /\ shutdownCalls = <<0, 1>>
    /\ shutdownCode = 0

\* the main thread has seen consumer c exit with a non-zero code before c reported
\* consumer_done and before shutdown started: worker.on('exit') has put c into consumersDone
CrashObserved(c) == c \in consumersDone /\ doneSent[c] = 0

\* C14 (worker crash is pipeline-fatal): in a run without deadline, once the main thread
\* has seen a consumer crash before shutdown started, the process exits with code 1
\* whatever the other consumers do.
C14_CrashIsFatal ==
    (/\ mainPc = "exited"
     /\ deadlineTimer = "none"
     /\ \E c \in Consumers : CrashObserved(c)) => shutdownCode = 1

\* C15 (producer failure is pipeline-fatal): in a run without deadline, once the producer
\* has aborted on a fatal error before sending producer_done, the main thread eventually
\* runs shutdown with code 1.
C15_ProducerFailureIsFatal ==
    (prodPc = "exited" /\ deadlineTimer = "none") ~> (shuttingDown /\ shutdownCode = 1)

\* the row consumer c holds
HeldRow(c) == CHOOSE i \in Rows : queue[i].id = cRow[c]

\* C16 (HTTP failure is local to the row): when one of the three fetches of a claimed row
\* has raised, the consumer leaves the catch block (unless shutdown terminates it there)
\* only with the row failed and all its result fields null, and back at poll: it neither
\* exits nor crashes.
C16_HttpFailureIsLocal ==
    [][\A c \in Consumers :
          (cPc[c] = "catch" /\ cPc'[c] \notin {"catch", "terminated"}) =>
              /\ cPc'[c] = "poll"
              /\ queue'[HeldRow(c)].status = "failed"
              /\ AllResultsNull(queue'[HeldRow(c)])]_vars

\* C17 (store-busy is never fatal): while the write lock is held against it, a consumer
\* at poll stays at poll with emptyPolls unchanged; a consumer whose write of the results
\* raised busy does not change the status of its row; and a consumer in the catch block,
\* whose only store operation there can fail with busy, does not crash.
C17_StoreBusyNeverFatal ==
    [][\A c \in Consumers :
          /\ (cPc[c] = "poll" /\ writeLock = "producer" /\ Alive(c)') =>
                cPc'[c] = "poll" /\ emptyPolls'[c] = emptyPolls[c]
          /\ cPc[c] = "catch_busy" =>
                queue'[HeldRow(c)].status = queue[HeldRow(c)].status
          /\ InCatch(c) => cPc'[c] # "crashed"]_vars

\* C18 (mark_done precondition): markDone completes only on a row whose status is
\* processing; applied to a pending, done or failed row it raises and leaves the row as
\* it is, so no row goes from pending, done or failed to done.
C18_MarkDonePrecondition ==
    [][/\ \A c \in Consumers :
            (cPc[c] = "http" /\ cPc'[c] = "poll") => queue[HeldRow(c)].status = "processing"
       /\ \A i \in Rows :
            (queue'[i].status = "done" /\ queue[i] # queue'[i]) =>
                queue[i].status = "processing"]_vars

\* the number of rows the producer is to enqueue
ExpectedTotal == IF config.limit > 0 THEN Min(config.limit, upstream) ELSE upstream

\* C19 (producer limit clipping): the table never holds more rows than the row limit;
\* every batch has at most pageSize rows, namely as many as are still to come up to that
\* size; a producer that finishes has enqueued min(limit, U) rows (U when limit = 0),
\* the first ones of the upstream in order, and that number is the totalInserted it
\* reports and the main thread records.
C19_LimitClipping ==
    /\ [](/\ config.limit > 0 => Len(queue) <= config.limit
          /\ Len(queue) = prodTotal
          /\ \A i \in Rows : queue[i].source_id = i /\ queue[i].status = "pending")
    /\ [](prodPc = "done" => Len(queue) = ExpectedTotal)
    /\ [](\A k \in 1..Len(p2m) : p2m[k].type = "producer_done" => p2m[k].count = ExpectedTotal)
    /\ [](mainProducerDone => mainTotal = ExpectedTotal /\ batchSum = ExpectedTotal)
    /\ [][Len(queue') # Len(queue) =>
            Len(queue') - Len(queue) = Min(config.pageSize, ExpectedTotal - Len(queue))]_vars

\* limit 3 with page size 2 over a longer upstream: the producer has finished after a
\* full batch and a clipped one, and the main thread has recorded the total of 3
C19_Witness ==
    /\ config.limit = 3 /\ config.pageSize = 2 /\ upstream > 3
    /\ prodPc = "done" /\ Len(queue) = 3
    /\ mainProducerDone /\ mainTotal = 3

\* C20 (batch atomicity): rows appear in the table only at the commit of insertBatch, the
\* whole batch in one step; whatever a consumer's dequeue or a status count reads, the
\* table holds whole batches only (a multiple of the page size, or the final total); and
\* when insertBatch fails, after any number of its rows were inserted, the table is left
\* as it was.
C20_BatchAtomicity ==
    /\ [](\E k \in 0..Len(queue) : Len(queue) = Min(k * config.pageSize, ExpectedTotal))
    /\ [][Len(queue') # Len(queue) =>
            /\ prodPc = "insert" /\ prodPc' # "exited"
            /\ prodInserted = Len(prodBatch)
            /\ Len(queue') = Len(queue) + Len(prodBatch)]_vars
    /\ [][(prodPc = "insert" /\ prodPc' = "exited") => queue' = queue]_vars

\* the producer has inserted one of the two rows of its batch and not committed: the
\* table the other connections read is empty, and a consumer that found it empty before
\* is waiting to poll again
C20_Witness ==
    /\ prodPc = "insert" /\ Len(prodBatch) = 2 /\ prodInserted = 1
    /\ Len(queue) = 0
    /\ \E c \in Consumers : cPc[c] = "poll" /\ emptyPolls[c] >= 1

\* C21 (orphan reset idempotence): after a call of the orphan reset no row has status
\* processing, and a second call right after the first returns 0 and changes nothing.
C21_ResetIdempotent ==
    /\ [](resetOutcome = "ok" => \A i \in Rows : queue[i].status # "processing")
    /\ [][resetOutcome = "ok" => resetChanges' = 0 /\ queue' = queue]_vars

\* the second of two successive calls has returned 0 on a table in which the first call
\* had put two rows back to pending
C21_Witness ==
    /\ resetOutcome = "ok" /\ resetChanges = 0
    /\ Len(queue) = 2
    /\ \A i \in Rows : rowLog[i].statuses = <<"processing", "pending">>

\* C22 (post-relay quiet period): when a consumer posts consumer_done it has taken at
\* least three empty polls since producer_done was delivered to it.
C22_QuietPeriod ==
    [][\A c \in Consumers : EmitsDone(c) => emptySinceDone'[c] >= EmptyPollsToExit]_vars

ClaimedBy(c) == {i \in Rows : \E k \in 1..Len(rowLog[i].claimers) : rowLog[i].claimers[k] = c}

\* C23 (claimed rows are finalised before exit): a consumer that has posted consumer_done
\* has no claimed row left in processing; from the claim of a row to its markDone or
\* markFailed the row stays processing and the consumer does not exit (no consumer_done,
\* whatever messages arrive), and it returns to poll only with the row done or failed.
C23_FinalisedBeforeExit ==
    /\ [](\A c \in Consumers : doneSent[c] > 0 =>
            \A i \in ClaimedBy(c) : queue[i].status \in {"done", "failed"})
    /\ [](\A c \in Consumers : Holding(c) => queue[HeldRow(c)].status = "processing")
    /\ [][\A c \in Consumers : Holding(c) =>
            /\ ~EmitsDone(c) /\ cPc'[c] # "done"
            /\ cPc'[c] = "poll" => queue'[HeldRow(c)].status \in {"done", "failed"}]_vars

\* a consumer that received drain while it held a row has marked the row failed and
\* later posted consumer_done
C23_Witness ==
    \E c \in Consumers :
        /\ cPc[c] = "done" /\ doneSent[c] = 1 /\ drainSeen[c]
        /\ \E i \in ClaimedBy(c) : queue[i].status = "failed"

ShutdownStarts == ~shuttingDown /\ shuttingDown'

\* C24 (shutdown triggers): shutdown starts only in the handler of a consumer_done that
\* completes the set of consumers accounted for (code 0), in the handler of a non-zero
\* consumer exit (code 1), in the handler of a producer error (code 1), or when the
\* safety timer armed by the deadline fires (code 0); consumers are terminated only by
\* shutdown; and in a run with no deadline, no producer error and no consumer crash a
\* terminated consumer has posted consumer_done before.
C24_ShutdownTriggers ==
    /\ [][ShutdownStarts =>
            \/ /\ shutdownBy' = "all_done" /\ shutdownCode' = 0
               /\ consumersDone' = Consumers
               /\ \E c \in Consumers : /\ Len(c2m[c]) > 0 /\ Head(c2m[c]) = "consumer_done"
                                       /\ c2m'[c] = Tail(c2m[c])
            \/ /\ shutdownBy' = "consumer_exit" /\ shutdownCode' = 1
               /\ \E c \in Consumers : /\ Len(c2m[c]) > 0 /\ Head(c2m[c]) = "exit1"
                                       /\ c2m'[c] = Tail(c2m[c])
            \/ /\ shutdownBy' = "producer_error" /\ shutdownCode' = 1
               /\ Len(p2m) > 0 /\ Head(p2m).type = "error" /\ p2m' = Tail(p2m)
            \/ /\ shutdownBy' = "drain_timeout" /\ shutdownCode' = 0
               /\ deadlineTimer = "fired" /\ drainTimeout = "armed" /\ drainTimeout' = "fired"]_vars
    /\ [][\A c \in Consumers :
            (cPc[c] # "terminated" /\ cPc'[c] = "terminated") => shuttingDown]_vars
    /\ [](/\ config.maxDuration = 0
          /\ prodPc # "errored"
          /\ \A c \in Consumers : cPc[c] # "crashed"
          => \A c \in Consumers : cPc[c] = "terminated" => doneSent[c] = 1)

\* a run without deadline, producer error or crash has exited with both consumers
\* terminated after their consumer_done
C24_Witness ==
    /\ mainPc = "exited" /\ shutdownBy = "all_done"
    /\ config.maxDuration = 0 /\ config.consumers = 2
    /\ \A c \in Consumers : cPc[c] = "terminated" /\ doneSent[c] = 1

ResetRuns == resetOutcome = "none" /\ resetOutcome' = "ok"

\* C25 (orphan reset frame): the orphan reset of shutdown turns every processing row
\* into a pending row with processed_at null and changes nothing else: pending, done and
\* failed rows, the ids, the source ids and all result fields stay as they are and no row
\* is added or removed; the count it returns is the number of rows it changed.
C25_ResetFrame ==
    [][ResetRuns =>
        /\ Len(queue') = Len(queue)
        /\ \A i \in Rows :
            /\ queue'[i].id = queue[i].id
            /\ queue'[i].source_id = queue[i].source_id
            /\ queue'[i].results = queue[i].results
            /\ IF queue[i].status = "processing"
               THEN queue'[i].status = "pending" /\ IsNull(queue'[i].processed_at)
               ELSE queue'[i] = queue[i]
        /\ resetChanges' = Cardinality({i \in Rows : queue'[i] # queue[i]})]_vars

\* the reset of shutdown has put one row back while the table also held a failed row
C25_Witness ==
    /\ resetOutcome = "ok" /\ resetChanges = 1
    /\ \E i, j \in Rows :
        /\ rowLog[i].statuses = <<"pending", "processing", "pending">>
        /\ queue[j].status = "failed"

InFlight(c) == {i \in ClaimedBy(c) : queue[i].status = "processing"}

\* C27 (one in-flight row per consumer): a consumer has at most one claimed row still in
\* processing, it claims a row only when it has none, every processing row was claimed
\* by some consumer, and so the number of processing rows never exceeds the number of
\* consumers.
C27_OneInFlight ==
    /\ [](/\ \A c \in Consumers : Cardinality(InFlight(c)) <= 1
          /\ \A i \in Rows : queue[i].status = "processing" =>
                \E c \in Consumers : i \in InFlight(c)
          /\ StatusCount(queue, "processing") <= config.consumers)
    /\ [][\A c \in Consumers : ClaimsBy(c)' > ClaimsBy(c) => InFlight(c) = {}]_vars

\* the only consumer works on one row while a second row waits as pending
C27_Witness ==
    /\ config.consumers = 1 /\ Holding(1)
    /\ StatusCount(queue, "processing") = 1
    /\ StatusCount(queue, "pending") = 1

\* C28 (consumer_done is final): a consumer posts consumer_done at most once; after it,
\* the consumer stays where it is until shutdown terminates it, whatever messages are
\* delivered to it: it takes no further poll, claims no row, and the rows it claimed are
\* not written again.
C28_ConsumerDoneIsFinal ==
    /\ [](\A c \in Consumers : doneSent[c] <= 1 /\ (cPc[c] = "done" => doneSent[c] = 1))
    /\ [][\A c \in Consumers : doneSent[c] > 0 =>
            /\ cPc[c] \in {"done", "terminated"}
            /\ cPc'[c] \in {"done", "terminated"}
            /\ doneSent'[c] = doneSent[c]
            /\ ClaimsBy(c)' = ClaimsBy(c)
            /\ \A i \in ClaimedBy(c) : queue'[i] = queue[i]
            /\ cPc'[c] = "done" => emptyPolls'[c] = emptyPolls[c] /\ pollLog'[c] = pollLog[c]]_vars

\* a consumer that has posted consumer_done, and whose consumer_done the main thread
\* has recorded, has had a drain message delivered; the other consumer still runs
C28_Witness ==
    /\ mainPc = "running" /\ config.consumers = 2
    /\ \E c, d \in Consumers :
        /\ cPc[c] = "done" /\ doneSent[c] = 1 /\ c \in consumersDone
        /\ drainSeen[c] /\ m2c[c] = <<>>
        /\ cPc[d] \in {"poll", "http"}

====
